---- MODULE Spec2Model ----
(***************************************************************************)
(* Commit attribution and identity resolution of the Bitbucket LOC         *)
(* analyzer (src/src/bitbucket_loc_analyzer.py).                           *)
(*                                                                         *)
(* Strings are sequences of one-character strings, so that the string      *)
(* operations of the code (lower, strip, split, replace, "in") are         *)
(* computed character by character.  Python's None is the value None.      *)
(***************************************************************************)
EXTENDS Integers, Sequences, FiniteSets, TLC

(***************************************************************************)
(* Bounds of the model.                                                    *)
(***************************************************************************)
\* longest generated identity string handed to the matcher
MaxLen == 3
\* most commits a modelled host serves
MaxCommits == 10
\* most steps of the clock while the cache is in use
MaxTicks == 3
\* most commits a host puts on one page of the commit list
MaxPageLimit == 3
\* most page requests of one get_commits call
MaxPageRequests == 12
\* most analyses submitted to the web application
MaxAnalyses == 3
\* most threads that use one cache file at the same time
MaxWorkers == 2
\* most analyses submitted to the analyzer UI
MaxSubmitted == 2
\* most jobs started through the API backend
MaxJobs == 2

(***************************************************************************)
(* Python string primitives.                                               *)
(***************************************************************************)
None == <<"None">>

\* a call that has not returned yet
Pending == <<"pending">>

\* Python truthiness of an optional string: None and "" are falsy
Truthy(s) == s # None /\ s # <<>>

UpperAlpha == <<"A", "B", "C", "D", "E", "F", "G", "H", "I", "J", "K", "L", "M",
                "N", "O", "P", "Q", "R", "S", "T", "U", "V", "W", "X", "Y", "Z">>

LowerAlpha == <<"a", "b", "c", "d", "e", "f", "g", "h", "i", "j", "k", "l", "m",
                "n", "o", "p", "q", "r", "s", "t", "u", "v", "w", "x", "y", "z">>

\* characters str.split() and str.strip() treat as whitespace
Whitespace == {" ", "\t"}

ToLower(c) ==
    IF \E i \in 1..Len(UpperAlpha) : UpperAlpha[i] = c
    THEN LowerAlpha[CHOOSE i \in 1..Len(UpperAlpha) : UpperAlpha[i] = c]
    ELSE c

\* s.lower()
Lower(s) == [i \in 1..Len(s) |-> ToLower(s[i])]

\* s.strip()
Strip(s) ==
    LET keep == {i \in 1..Len(s) : s[i] \notin Whitespace}
    IN  IF keep = {} THEN <<>>
        ELSE LET lo == CHOOSE i \in keep : \A j \in keep : i <= j
                 hi == CHOOSE i \in keep : \A j \in keep : j <= i
             IN  SubSeq(s, lo, hi)

\* c in s, for a single character c
HasChar(s, c) == \E i \in 1..Len(s) : s[i] = c

\* sub in s
Contains(s, sub) ==
    \E i \in 0..(Len(s) - Len(sub)) : SubSeq(s, i + 1, i + Len(sub)) = sub

\* s.endswith(suffix)
EndsWith(s, suffix) ==
    /\ Len(suffix) <= Len(s)
    /\ SubSeq(s, Len(s) - Len(suffix) + 1, Len(s)) = suffix

RECURSIVE SplitFrom(_, _, _, _)
SplitFrom(s, c, i, cur) ==
    IF i > Len(s) THEN <<cur>>
    ELSE IF s[i] = c THEN <<cur>> \o SplitFrom(s, c, i + 1, <<>>)
    ELSE SplitFrom(s, c, i + 1, Append(cur, s[i]))

\* s.split(c): the segments between occurrences of c, empty ones included
SplitOn(s, c) == SplitFrom(s, c, 1, <<>>)

RECURSIVE SplitWsFrom(_, _, _)
SplitWsFrom(s, i, cur) ==
    IF i > Len(s) THEN (IF cur = <<>> THEN <<>> ELSE <<cur>>)
    ELSE IF s[i] \in Whitespace
         THEN (IF cur = <<>> THEN <<>> ELSE <<cur>>) \o SplitWsFrom(s, i + 1, <<>>)
    ELSE SplitWsFrom(s, i + 1, Append(cur, s[i]))

\* s.split(): the maximal runs of non-whitespace characters
SplitWs(s) == SplitWsFrom(s, 1, <<>>)

RECURSIVE Replace(_, _, _)
\* s.replace(c, r) for a single character c and a replacement string r
Replace(s, c, r) ==
    IF s = <<>> THEN <<>>
    ELSE (IF Head(s) = c THEN r ELSE <<Head(s)>>) \o Replace(Tail(s), c, r)

RECURSIVE JoinSpace(_)
\* ' '.join(parts)
JoinSpace(parts) ==
    IF parts = <<>> THEN <<>>
    ELSE IF Len(parts) = 1 THEN parts[1]
    ELSE parts[1] \o <<" ">> \o JoinSpace(Tail(parts))

Range(f) == {f[i] : i \in DOMAIN f}

(***************************************************************************)
(* Identity Normalizer: BitbucketLOCAnalyzer.normalize_username            *)
(***************************************************************************)
\* thresholds of the matcher
MinEmailPartLen == 3
MatchTenths == 6
MinNameParts == 2
MinFocusPartLen == 3
MinSubstringLen == 4

\* the nickname table of normalize_username
name_mappings ==
    <<<<<<"r", "o", "b", "e", "r", "t">>, <<"r", "o", "b">>>>,
      <<<<"m", "i", "c", "h", "a", "e", "l">>, <<"m", "i", "k", "e">>>>,
      <<<<"m", "a", "t", "t", "h", "e", "w">>, <<"m", "a", "t", "t">>>>,
      <<<<"c", "h", "r", "i", "s", "t", "o", "p", "h", "e", "r">>, <<"c", "h", "r", "i", "s">>>>,
      <<<<"r", "i", "c", "h", "a", "r", "d">>, <<"r", "i", "c", "k">>>>,
      <<<<"j", "o", "n", "a", "t", "h", "a", "n">>, <<"j", "o", "n">>>>,
      <<<<"n", "i", "c", "h", "o", "l", "a", "s">>, <<"n", "i", "c", "k">>>>,
      <<<<"d", "a", "n", "i", "e", "l">>, <<"d", "a", "n">>>>,
      <<<<"w", "i", "l", "l", "i", "a", "m">>, <<"w", "i", "l", "l">>>>,
      <<<<"b", "e", "n", "j", "a", "m", "i", "n">>, <<"b", "e", "n">>>>,
      <<<<"a", "l", "e", "x", "a", "n", "d", "e", "r">>, <<"a", "l", "e", "x">>>>,
      <<<<"k", "a", "t", "h", "e", "r", "i", "n", "e">>, <<"k", "a", "t", "e">>>>,
      <<<<"j", "e", "n", "n", "i", "f", "e", "r">>, <<"j", "e", "n">>>>,
      <<<<"e", "l", "i", "z", "a", "b", "e", "t", "h">>, <<"l", "i", "z">>>>,
      <<<<"s", "t", "e", "p", "h", "a", "n", "i", "e">>, <<"s", "t", "e", "p", "h">>>>,
      <<<<"d", "e", "b", "o", "r", "a", "h">>, <<"d", "e", "b">>>>>>

normalize_username(username) ==
    IF ~Truthy(username) THEN None
    ELSE LET stripped == Lower(Strip(username))
             local == IF HasChar(stripped, "@") THEN SplitOn(stripped, "@")[1]
                      ELSE stripped
             spaced == Replace(Replace(local, ".", <<" ">>), "_", <<" ">>)
             normalized == JoinSpace(SplitWs(spaced))
         IN  IF \E k \in 1..Len(name_mappings) : name_mappings[k][1] = normalized
             THEN name_mappings[CHOOSE k \in 1..Len(name_mappings) :
                                    name_mappings[k][1] = normalized][2]
             ELSE normalized

(***************************************************************************)
(* Identity Matcher: BitbucketLOCAnalyzer.is_user_match                    *)
(***************************************************************************)
\* split_name_parts with the comma left in place
split_name_parts_keeps_commas(name) ==
    LET clean_name == Replace(Replace(name, ".", <<" ">>), "_", <<" ">>)
    IN  {Lower(Strip(part)) : part \in Range(SplitWs(clean_name))}

\* the nested helper split_name_parts: the set of lower-cased words of a name
split_name_parts(name) ==
    LET clean_name == Replace(Replace(Replace(name, ",", <<" ">>), ".", <<" ">>),
                              "_", <<" ">>)
    IN  {Lower(Strip(part)) : part \in Range(SplitWs(clean_name))}

\* the words of a name the email segments are compared with (line 1148)
name_words_of(user1_clean) ==
    SplitWs(Replace(Replace(Replace(user1_clean, ",", <<" ">>), "(", <<" ">>),
                    ")", <<" ">>))

\* the number of email segments of length >= 3 that are inside, or contain,
\* a word of the name (lines 1151-1157)
email_part_matches(email_parts, name_words) ==
    Cardinality({i \in 1..Len(email_parts) :
        /\ Len(email_parts[i]) >= MinEmailPartLen
        /\ \E w \in 1..Len(name_words) :
              \/ Contains(name_words[w], email_parts[i])
              \/ Contains(email_parts[i], name_words[w])})

\* matches >= len(email_parts) * 0.6, in tenths
meets_threshold(matches, total) == matches * 10 >= total * MatchTenths

\* lines 1140-1168: user1 is a name, user2 is an email
email_name_match(user1_clean, user2_clean) ==
    LET email_prefix == SplitOn(user2_clean, "@")[1]
        email_parts == SplitOn(email_prefix, ".")
        name_words == name_words_of(user1_clean)
        name_normalized ==
            Replace(Replace(Replace(Replace(user1_clean, ",", <<>>), "(", <<>>),
                            ")", <<>>), " ", <<>>)
        email_normalized == Replace(email_prefix, ".", <<>>)
    IN  \/ /\ HasChar(email_prefix, ".")
           /\ meets_threshold(email_part_matches(email_parts, name_words),
                              Len(email_parts))
        \/ Contains(name_normalized, email_normalized)
        \/ Contains(email_normalized, name_normalized)

\* lines 1183-1224: neither side is an email
name_name_match(username1, username2, user1_clean, user2_clean) ==
    LET norm1 == normalize_username(username1)
        norm2 == normalize_username(username2)
        user1_parts == split_name_parts(username1)
        user2_parts == split_name_parts(username2)
        words == SplitWs(Replace(user2_clean, ",", <<" ">>))
        focus_parts == {words[i] : i \in {j \in 1..Len(words) :
                                             Len(words[j]) >= MinFocusPartLen}}
    IN  \/ Truthy(norm1) /\ Truthy(norm2) /\ norm1 = norm2
        \/ /\ Cardinality(user2_parts) >= MinNameParts
           /\ Cardinality(user1_parts) >= MinNameParts
           /\ user2_parts \subseteq user1_parts \/ user1_parts \subseteq user2_parts
        \/ /\ Len(user2_clean) >= MinFocusPartLen
           /\ Contains(user1_clean, user2_clean)
           /\ Len(user2_clean) >= MinSubstringLen \/ user2_clean = user1_clean
        \/ \E part \in focus_parts : Contains(user1_clean, part)

RECURSIVE is_user_match(_, _)
\* is_user_match without the test for missing arguments
is_user_match_unguarded(username1, username2) ==
    LET user1_clean == Strip(Lower(username1))
        user2_clean == Strip(Lower(username2))
    IN  IF user1_clean = user2_clean THEN TRUE
        ELSE IF HasChar(user2_clean, "@")
             THEN IF HasChar(user1_clean, "@")
                  THEN user1_clean = user2_clean
                  ELSE email_name_match(user1_clean, user2_clean)
        ELSE IF HasChar(user1_clean, "@")
             THEN is_user_match(username2, username1)
        ELSE name_name_match(username1, username2, user1_clean, user2_clean)

is_user_match(username1, username2) ==
    IF ~Truthy(username1) \/ ~Truthy(username2) THEN FALSE
    ELSE LET user1_clean == Strip(Lower(username1))
             user2_clean == Strip(Lower(username2))
         IN  IF user1_clean = user2_clean THEN TRUE
             ELSE IF HasChar(user2_clean, "@")
                  THEN IF HasChar(user1_clean, "@")
                       THEN user1_clean = user2_clean
                       ELSE email_name_match(user1_clean, user2_clean)
             ELSE IF HasChar(user1_clean, "@")
                  THEN is_user_match(username2, username1)
             ELSE name_name_match(username1, username2, user1_clean, user2_clean)

RECURSIVE match_calls(_, _)
\* the calls of is_user_match that one call makes, itself included
match_calls(username1, username2) ==
    IF ~Truthy(username1) \/ ~Truthy(username2) THEN 1
    ELSE LET user1_clean == Strip(Lower(username1))
             user2_clean == Strip(Lower(username2))
         IN  IF user1_clean = user2_clean THEN 1
             ELSE IF HasChar(user2_clean, "@") THEN 1
             ELSE IF HasChar(user1_clean, "@")
                  THEN 1 + match_calls(username2, username1)
             ELSE 1

(***************************************************************************)
(* Identity strings the matcher is exercised on.                           *)
(***************************************************************************)
StrJohnDoe == <<"J", "o", "h", "n", " ", "D", "o", "e">>
StrJohnDotDoe == <<"j", "o", "h", "n", ".", "d", "o", "e">>
StrKallattiManjunath == <<"K", "a", "l", "l", "a", "t", "t", "i", ",", " ", "M", "a", "n", "j", "u", "n", "a", "t", "h">>
StrManjunathKallatti == <<"M", "a", "n", "j", "u", "n", "a", "t", "h", " ", "K", "a", "l", "l", "a", "t", "t", "i">>
StrSmithJohn == <<"S", "m", "i", "t", "h", ",", " ", "J", "o", "h", "n">>
StrJohnSmith == <<"J", "o", "h", "n", " ", "S", "m", "i", "t", "h">>
StrDoeJane == <<"D", "o", "e", ",", " ", "J", "a", "n", "e">>
StrDanielAnderson == <<"D", "a", "n", "i", "e", "l", " ", "A", "n", "d", "e", "r", "s", "o", "n">>
StrAn == <<"a", "n">>
StrDa == <<"d", "a">>
StrAnderson == <<"A", "n", "d", "e", "r", "s", "o", "n">>
StrDaniel == <<"D", "a", "n", "i", "e", "l">>
StrDan == <<"d", "a", "n">>
StrManjunathEmail == <<"m", "a", "n", "j", "u", "n", "a", "t", "h", ".", "k", "a", "l", "l", "a", "t", "t", "i", "@", "x", ".", "c", "o", "m">>
StrJsmithX == <<"j", "s", "m", "i", "t", "h", "@", "x", ".", "c", "o", "m">>
StrJsmithCo == <<"j", "s", "m", "i", "t", "h", "@", "c", "o", ".", "c", "o", "m">>
StrBobJones == <<"B", "o", "b", " ", "J", "o", "n", "e", "s">>
StrDanielEmail == <<"d", "a", "n", "i", "e", "l", ".", "a", "n", "d", "e", "r", "s", "o", "n", "@", "x", ".", "c", "o", "m">>
StrDanEmail == <<"d", "a", "n", "@", "x", ".", "c", "o", "m">>
StrJohnDoeEmail == <<"j", "o", "h", "n", ".", "d", "o", "e", "@", "c", "o", "m", "p", "a", "n", "y", ".", "c", "o", "m">>
StrJohn == <<"j", "o", "h", "n">>
StrAbcd == <<"a", "b", "c", "d">>
StrAbcdef == <<"a", "b", "c", "d", "e", "f">>
StrJJones == <<"J", " ", "J", "o", "n", "e", "s">>
StrDrJohnSmith == <<"D", "r", ".", " ", "J", "o", "h", "n", " ", "S", "m", "i", "t", "h">>
StrLiBo == <<"L", "i", ",", " ", "B", "o">>
StrBoLi == <<"B", "o", " ", "L", "i">>
StrEmailJohn == <<"j", "o", "h", "n", "@", "c", "o", ".", "c", "o", "m">>
StrEmailJane == <<"j", "a", "n", "e", "@", "c", "o", ".", "c", "o", "m">>
StrNobody == <<"Z", "e", "d", " ", "Q", "u", "u", "x">>
Samples ==
    {StrJohnDoe,
     StrJohnDotDoe,
     StrKallattiManjunath,
     StrManjunathKallatti,
     StrSmithJohn,
     StrJohnSmith,
     StrDoeJane,
     StrDanielAnderson,
     StrAn,
     StrDa,
     StrAnderson,
     StrDaniel,
     StrDan,
     StrManjunathEmail,
     StrJsmithX,
     StrJsmithCo,
     StrBobJones,
     StrDanielEmail,
     StrDanEmail,
     StrJohnDoeEmail,
     StrJohn,
     StrAbcd,
     StrAbcdef,
     StrJJones,
     StrDrJohnSmith,
     StrLiBo,
     StrBoLi,
     StrNobody}

(***************************************************************************)
(* File paths and the denylist of _should_skip_file.                       *)
(***************************************************************************)
\* _should_skip_file: extensions of binary and generated files
skip_extensions ==
    {<<".", "p", "n", "g">>,
     <<".", "j", "p", "g">>,
     <<".", "j", "p", "e", "g">>,
     <<".", "g", "i", "f">>,
     <<".", "i", "c", "o">>,
     <<".", "b", "m", "p">>,
     <<".", "t", "i", "f", "f">>,
     <<".", "z", "i", "p">>,
     <<".", "t", "a", "r">>,
     <<".", "g", "z">>,
     <<".", "r", "a", "r">>,
     <<".", "7", "z">>,
     <<".", "j", "a", "r">>,
     <<".", "w", "a", "r">>,
     <<".", "e", "a", "r">>,
     <<".", "c", "l", "a", "s", "s">>,
     <<".", "p", "y", "c">>,
     <<".", "p", "y", "o">>,
     <<".", "o">>,
     <<".", "o", "b", "j">>,
     <<".", "d", "l", "l">>,
     <<".", "e", "x", "e">>,
     <<".", "s", "o">>,
     <<".", "d", "y", "l", "i", "b">>,
     <<".", "m", "i", "n", ".", "j", "s">>,
     <<".", "m", "i", "n", ".", "c", "s", "s">>,
     <<".", "p", "d", "f">>,
     <<".", "d", "o", "c">>,
     <<".", "d", "o", "c", "x">>,
     <<".", "p", "p", "t">>,
     <<".", "p", "p", "t", "x">>,
     <<".", "x", "l", "s">>,
     <<".", "x", "l", "s", "x">>,
     <<".", "s", "v", "g">>,
     <<".", "t", "t", "f">>,
     <<".", "w", "o", "f", "f">>,
     <<".", "w", "o", "f", "f", "2">>,
     <<".", "e", "o", "t">>,
     <<".", "m", "p", "3">>,
     <<".", "m", "p", "4">>,
     <<".", "a", "v", "i">>,
     <<".", "m", "o", "v">>,
     <<".", "f", "l", "v">>,
     <<".", "w", "e", "b", "m">>,
     <<".", "l", "o", "c", "k">>}

\* _should_skip_file: directories of generated and vendored files
skip_paths ==
    {<<"n", "o", "d", "e", "_", "m", "o", "d", "u", "l", "e", "s", "/">>,
     <<"d", "i", "s", "t", "/">>,
     <<"b", "u", "i", "l", "d", "/">>,
     <<"t", "a", "r", "g", "e", "t", "/">>,
     <<"_", "_", "p", "y", "c", "a", "c", "h", "e", "_", "_", "/">>,
     <<".", "g", "i", "t", "/">>,
     <<".", "s", "v", "n", "/">>,
     <<".", "i", "d", "e", "a", "/">>,
     <<".", "v", "s", "c", "o", "d", "e", "/">>,
     <<".", "g", "r", "a", "d", "l", "e", "/">>,
     <<"v", "e", "n", "d", "o", "r", "/">>,
     <<"b", "i", "n", "/">>,
     <<"o", "b", "j", "/">>}
PathAppPy == <<"s", "r", "c", "/", "a", "p", "p", ".", "p", "y">>
PathLogoPng == <<"L", "o", "g", "o", ".", "P", "N", "G">>
PathDistJs == <<"d", "i", "s", "t", "/", "a", "p", "p", ".", "j", "s">>
PathUtilJs == <<"u", "t", "i", "l", ".", "j", "s">>
ExtPy == <<".", "p", "y">>

(***************************************************************************)
(* State.                                                                  *)
(***************************************************************************)
VARIABLES
    username1,      \* first argument of the matcher call under test
    username2,      \* second argument of the matcher call under test
    matchResult,    \* "pending", or the boolean is_user_match returned
    normResult,     \* Pending, or what normalize_username(username1) returned
    is_stash,       \* self.is_stash: Server dialect (TRUE) or Cloud dialect
    host,           \* which repository the hosting server holds
    reliable,       \* TRUE if no request of this run fails
    focus_user,     \* analyze_repository arguments
    ignore_merges,
    include_merges,
    by_user,
    file_extensions,
    pc,             \* position of analyze_repository
    commits,        \* what get_commits returned: positions in the served list
    futures,        \* per submitted commit: "queued", "done" or "collected"
    completed,      \* finished futures as_completed has not yet yielded
    results,        \* analyze_commits_parallel.results
    user_data,      \* analyze_commits_parallel.user_data, in insertion order
    filtered_commit_count,
    requests,       \* the network requests issued: <<commit id, kind>>
    output,         \* what analyze_repository returned
    listing,        \* "pending", or how the commit-list request ended
    loc_changes,    \* NoCall, or the last direct call of a resolver method
    cache,          \* APICache: the cache files, by cache key
    now,            \* time.time(), in seconds
    last_request,   \* NoRequest, or the last _make_request call
    page_limit,     \* how many commits the host puts on one page of the commit list
    start,          \* get_commits.start: the offset of the next page to request
    all_commits,    \* get_commits.all_commits: positions in the served list
    page_requests,  \* the offsets of the pages get_commits has requested, in order
    ui_pc,          \* simple_bitbucket_ui: where each analysis (request, thread) stands
    cache_key,      \* run_background_analysis.cache_key of each analysis
    _cache_lock,    \* simple_bitbucket_ui._cache_lock: 0, or the analysis holding it
    _user_cache,    \* simple_bitbucket_ui._user_cache: the cache keys stored
    _analysis_progress, \* simple_bitbucket_ui._analysis_progress, by analysis
    cache_file,     \* the pieces of one cache file as they are on disk
    io_pc,          \* where each thread stands in APICache.get / APICache.set
    io_content,     \* APICache.set.content of each thread inside set
    io_pos,         \* how many pieces each thread inside set has written out
    io_given,       \* the contents the set calls so far were given
    io_returned,    \* what the last APICache.get of each thread returned
    _analysis_status, \* bitbucket_loc_analyzer_ui._analysis_status, by analysis id
    run_stage,      \* per analysis id: 0, or the next status update of its thread
    request_params, \* the form values analyze() and its run_analysis closure hold
    analysis_jobs,  \* backend/api/app.py analysis_jobs: the AnalysisJob of each job id
    job_pc,         \* where the run_analysis_job thread of each job stands
    job_response    \* NoResponse, or the last answer of GET /api/jobs/<job_id>/results

matchVars == <<username1, username2, matchResult, normResult>>

pageVars == <<page_limit, start, all_commits, page_requests>>

callVars == <<loc_changes, cache, now, last_request, pageVars>>

uiVars == <<ui_pc, cache_key, _cache_lock, _user_cache, _analysis_progress>>

ioVars == <<cache_file, io_pc, io_content, io_pos, io_given, io_returned>>

statusVars == <<_analysis_status, run_stage, request_params>>

jobVars == <<analysis_jobs, job_pc, job_response>>

webVars == <<uiVars, ioVars, statusVars, jobVars>>

\* the variables of the web application outside simple_bitbucket_ui.py
notUi == <<ioVars, statusVars, jobVars>>

\* the variables of the web application outside the shared cache file
notIo == <<uiVars, statusVars, jobVars>>

\* the variables of the web application outside bitbucket_loc_analyzer_ui.py
notStatus == <<uiVars, ioVars, jobVars>>

\* the variables of the web application outside backend/api/app.py
notJob == <<uiVars, ioVars, statusVars>>

configVars == <<is_stash, host, reliable, focus_user, ignore_merges, include_merges,
                by_user, file_extensions>>

runVars == <<is_stash, host, reliable, focus_user, ignore_merges, include_merges,
             by_user, file_extensions, pc, commits, futures, completed, results,
             user_data, filtered_commit_count, requests, output, listing>>

coreVars == <<matchVars, runVars, callVars>>

vars == <<matchVars, runVars, callVars, webVars>>

Max(a, b) == IF a >= b THEN a ELSE b
Min(a, b) == IF a <= b THEN a ELSE b

RECURSIVE Sum(_)
\* the sum of a sequence of numbers
Sum(s) == IF s = <<>> THEN 0 ELSE Head(s) + Sum(Tail(s))

\* the sequence of the values of one field of a sequence of records
Additions(rows) == [k \in 1..Len(rows) |-> rows[k].additions]
Deletions(rows) == [k \in 1..Len(rows) |-> rows[k].deletions]

(***************************************************************************)
(* Dates.  Day 0 is Saturday 2024-01-27; a timestamp is a number of        *)
(* milliseconds since the start of day 0; a date is a day number.          *)
(***************************************************************************)
MsPerDay == 86400000
\* 23:59:59 as milliseconds into the day
LastSecondMs == 86399000

\* start_date and end_date of the analysed window
StartDay == 1
EndDay == 5

\* int(datetime.strptime(start_date).timestamp() * 1000)
start_timestamp_ms == StartDay * MsPerDay
\* the same for end_date at 23:59:59
end_timestamp_ms == EndDay * MsPerDay + LastSecondMs

\* datetime.fromtimestamp(ms / 1000).strftime('%Y-%m-%d')
DateOf(ms) == ms \div MsPerDay

\* pandas dayofweek (Monday = 0) of a date
DayOfWeek(d) == (d + 5) % 7

\* the first day of the month of a date: 2024-01-01, 2024-02-01, 2024-03-01
FirstOfMonth(d) == IF d < 5 THEN -26 ELSE IF d < 34 THEN 5 ELSE 34

GroupBys == {"day", "week", "month"}

\* the date bucket analyze_repository groups a date under
date_bucket(d, group_by) ==
    CASE group_by = "day" -> d
      [] group_by = "week" -> d - DayOfWeek(d)
      [] group_by = "month" -> FirstOfMonth(d)

(***************************************************************************)
(* Commits and diff payloads as the hosting server reports them.           *)
(***************************************************************************)
DiffFile(path, added, removed) ==
    [path |-> path, lines_added |-> added, lines_removed |-> removed]

Commit(id, name, email, authorTs, committerTs, parents, merge_message, diff) ==
    [id |-> id, displayName |-> name, emailAddress |-> email,
     authorTimestamp |-> authorTs, committerTimestamp |-> committerTs,
     parents |-> parents, merge_message |-> merge_message, diffs |-> diff]

TBefore == start_timestamp_ms - 1
TFirst == start_timestamp_ms
TMonday == 2 * MsPerDay + 3600000
TLastSecond == end_timestamp_ms
TLastMs == end_timestamp_ms + 999
TAfter == (EndDay + 1) * MsPerDay

\* the commits of the end-to-end scenario: a direct commit +10/-2, a merge
\* commit, a direct commit +5/-0 whose author name is an email
ScenarioHost ==
    <<Commit(1, StrSmithJohn, StrEmailJohn, TMonday, TMonday, 1, FALSE,
             <<DiffFile(PathAppPy, 10, 2), DiffFile(PathLogoPng, 3, 0)>>),
      Commit(2, StrDoeJane, StrEmailJane, TFirst, TMonday, 2, TRUE,
             <<DiffFile(PathAppPy, 7, 1)>>),
      Commit(3, StrJsmithCo, StrJsmithCo, TLastSecond, TLastSecond, 1, FALSE,
             <<DiffFile(PathUtilJs, 5, 0)>>)>>

\* commits whose author and committer timestamps fall on different sides of
\* the window; the first is a root commit, the second a two-parent commit
\* whose message does not start with "Merge "
TimestampHost ==
    <<Commit(1, StrSmithJohn, StrEmailJohn, TBefore, TMonday, 0, FALSE,
             <<DiffFile(PathAppPy, 4, 0)>>),
      Commit(2, StrJohnSmith, StrEmailJohn, TFirst, TFirst, 2, FALSE,
             <<DiffFile(PathDistJs, 9, 9), DiffFile(PathAppPy, 1, 1)>>),
      Commit(3, StrDoeJane, StrEmailJane, TAfter, TMonday, 1, FALSE,
             <<DiffFile(PathAppPy, 2, 2)>>),
      Commit(4, StrDoeJane, StrEmailJane, TMonday, TLastMs, 1, TRUE,
             <<DiffFile(PathAppPy, 6, 0)>>)>>

\* a host with enough commits in the window for two worker threads
BigCommit(i) ==
    Commit(i,
           IF i % 2 = 1 THEN StrSmithJohn ELSE StrDoeJane,
           IF i % 4 = 1 THEN StrEmailJohn ELSE IF i % 2 = 0 THEN StrEmailJane
           ELSE StrJsmithCo,
           TFirst + (i % 3) * MsPerDay, TFirst + (i % 3) * MsPerDay,
           1, FALSE, <<DiffFile(PathAppPy, i, 1)>>)

BigHost == [i \in 1..MaxCommits |-> BigCommit(i)]

\* the focus_user values of the modelled runs
FocusUsers == {None, StrJohnSmith, StrNobody}

\* the commits of a repository, in the order the server lists them
Served(h) ==
    CASE h = "scenario" -> ScenarioHost
      [] h = "timestamps" -> TimestampHost
      [] h = "big" -> BigHost
      [] OTHER -> <<>>

(***************************************************************************)
(* Diff Statistics Resolver.                                               *)
(*                                                                         *)
(* An outcome oc says how the requests made for one commit end:            *)
(*   oc.detail   "ok", "fail" (_make_request returns None) or "malformed"  *)
(*               (a JSON body that is not an object)                       *)
(*   oc.archive  "ok", "fail" (_download_and_extract raises) or "hang"     *)
(*               (the host never answers: the download is requested        *)
(*               without a timeout and blocks the calling thread)          *)
(*   oc.cloc     "ok" (cloc runs) or "missing" (cloc absent or failing)    *)
(*   oc.diff     "ok" or "fail"                                            *)
(* A resolver returns kind "stats" with the counts, or kind "raise", and   *)
(* the kinds of request it issued.  A request repeated for one commit is   *)
(* answered as the first time (the response cache).                        *)
(***************************************************************************)
Outcomes ==
    [detail : {"ok", "fail", "malformed"}, archive : {"ok", "fail", "hang"},
     cloc : {"ok", "missing"}, diff : {"ok", "fail"}]

AllOk == [detail |-> "ok", archive |-> "ok", cloc |-> "ok", diff |-> "ok"]

Stats(additions, deletions, reqs) ==
    [kind |-> "stats", additions |-> additions, deletions |-> deletions, reqs |-> reqs]

Raise(reqs) == [kind |-> "raise", additions |-> 0, deletions |-> 0, reqs |-> reqs]

\* the call never returns: requests.get in _download_and_extract has no timeout
Hang(reqs) == [kind |-> "hang", additions |-> 0, deletions |-> 0, reqs |-> reqs]

_should_skip_file(filepath) ==
    LET lowered == Lower(filepath)
    IN  \/ \E ext \in skip_extensions : EndsWith(lowered, ext)
        \/ \E path \in skip_paths : Contains(filepath, path)

\* the files of a diff payload that get_loc_changes counts
counted_files(diffs, extensions) ==
    SelectSeq(diffs, LAMBDA f :
        /\ ~_should_skip_file(f.path)
        /\ \/ extensions = <<>>
           \/ \E k \in 1..Len(extensions) : EndsWith(f.path, extensions[k]))

\* get_loc_changes when every file of the diff payload is counted
get_loc_changes_all_files(commit, extensions, oc) ==
    LET first == IF is_stash THEN {"detail"} ELSE {}
    IN  IF is_stash /\ oc.detail = "malformed" THEN Raise(first)
        ELSE IF is_stash /\ oc.detail = "ok" /\ commit.parents > 1
             THEN Stats(0, 0, first)
        ELSE IF oc.diff = "fail" THEN Stats(0, 0, first \cup {"diff"})
        ELSE Stats(Sum([k \in 1..Len(commit.diffs) |-> commit.diffs[k].lines_added]),
                   Sum([k \in 1..Len(commit.diffs) |-> commit.diffs[k].lines_removed]),
                   first \cup {"diff"})

get_loc_changes(commit, extensions, oc) ==
    LET first == IF is_stash THEN {"detail"} ELSE {}
        files == counted_files(commit.diffs, extensions)
    IN  IF is_stash /\ oc.detail = "malformed" THEN Raise(first)
        ELSE IF is_stash /\ oc.detail = "ok" /\ commit.parents > 1
             THEN Stats(0, 0, first)
        ELSE IF oc.diff = "fail" THEN Stats(0, 0, first \cup {"diff"})
        ELSE Stats(Sum([k \in 1..Len(files) |-> files[k].lines_added]),
                   Sum([k \in 1..Len(files) |-> files[k].lines_removed]),
                   first \cup {"diff"})

\* get_loc_changes counts with the reqs of the caller added
with_reqs(r, reqs) == [r EXCEPT !.reqs = @ \cup reqs]

get_loc_changes_with_cloc(commit, extensions, oc) ==
    IF oc.detail = "malformed" THEN Raise({"detail"})
    ELSE IF oc.detail = "ok" /\ commit.parents > 1 THEN Stats(0, 0, {"detail"})
    ELSE IF oc.detail # "ok" \/ commit.parents = 0 THEN Stats(0, 0, {"detail"})
    ELSE IF oc.archive = "hang" THEN Hang({"detail", "archive"})
    ELSE IF oc.archive = "fail"
         THEN with_reqs(get_loc_changes(commit, extensions, oc), {"detail", "archive"})
    ELSE IF oc.cloc = "missing" THEN Stats(0, 0, {"detail", "archive"})
    ELSE with_reqs(get_loc_changes(commit, extensions, oc), {"detail", "archive"})

(***************************************************************************)
(* Attribution Engine: one commit.                                         *)
(***************************************************************************)
\* the timestamp get_commits filters on: it reads the Server field names
listing_timestamp(commit) ==
    LET author_timestamp_ms == IF is_stash THEN commit.authorTimestamp ELSE 0
        committer_timestamp_ms ==
            IF is_stash THEN commit.committerTimestamp ELSE author_timestamp_ms
    IN  Max(author_timestamp_ms, committer_timestamp_ms)

get_commits(served) ==
    SelectSeq([k \in 1..Len(served) |-> k], LAMBDA k :
        /\ start_timestamp_ms <= listing_timestamp(served[k])
        /\ listing_timestamp(served[k]) <= end_timestamp_ms)

Filtered == [kind |-> "filtered", date |-> 0, additions |-> 0, deletions |-> 0,
             author |-> None, email |-> None, reqs |-> {}]

Failed(reqs) == [Filtered EXCEPT !.kind = "raise", !.reqs = reqs]

\* the worker is still inside _process_single_commit
Blocked(reqs) == [Filtered EXCEPT !.kind = "hang", !.reqs = reqs]

passes_focus(commit, focus) ==
    ~Truthy(focus) \/ is_user_match(commit.displayName, focus)

\* lines 1290-1311: the statistics of a commit that passed the filters; cloc
\* first, the diff resolver when cloc raises
commit_entry(commit, extensions, with_user, oc) ==
    LET commit_date == DateOf(Max(commit.authorTimestamp, commit.committerTimestamp))
        first == get_loc_changes_with_cloc(commit, extensions, oc)
        stats == IF first.kind = "raise"
                 THEN with_reqs(get_loc_changes(commit, extensions, oc), first.reqs)
                 ELSE first
    IN  IF stats.kind = "raise" THEN Failed(stats.reqs)
        ELSE IF stats.kind = "hang" THEN Blocked(stats.reqs)
        ELSE [kind |-> "entry", date |-> commit_date,
              additions |-> stats.additions, deletions |-> stats.deletions,
              author |-> IF with_user THEN commit.displayName ELSE None,
              email |-> IF with_user THEN commit.emailAddress ELSE None,
              reqs |-> stats.reqs]

\* _process_single_commit with the statistics resolved ahead of the filters
_process_single_commit_stats_first(commit, extensions, focus, ignore, include, with_user, ocs) ==
    LET entries == {commit_entry(commit, extensions, with_user, oc) : oc \in ocs}
    IN  IF ~passes_focus(commit, focus) \/ (commit.merge_message /\ ignore /\ ~include)
        THEN {[Filtered EXCEPT !.reqs = e.reqs] : e \in entries}
        ELSE entries

\* the results _process_single_commit can return for one commit when its
\* requests turn out as one of ocs
_process_single_commit(commit, extensions, focus, ignore, include, with_user, ocs) ==
    IF ~passes_focus(commit, focus) THEN {Filtered}
    ELSE IF commit.merge_message /\ ignore /\ ~include THEN {Filtered}
    ELSE {commit_entry(commit, extensions, with_user, oc) : oc \in ocs}

(***************************************************************************)
(* Attribution Engine: analyze_repository and analyze_commits_parallel.    *)
(***************************************************************************)
max_workers == 5
commits_per_worker == 5

\* the size of the thread pool for a batch of n commits
workers(n) == Min(max_workers, Max(1, n \div commits_per_worker))

NoOutput == [kind |-> "running", grouped |-> <<>>, user_df |-> <<>>]
ReturnedNone == [kind |-> "none", grouped |-> <<>>, user_df |-> <<>>]

\* df.groupby('date').agg(sum): one row per date bucket, by ascending date
grouped_by_date(entries, group_by) ==
    LET bucket(e) == date_bucket(e.date, group_by)
        buckets == {bucket(entries[k]) : k \in 1..Len(entries)}
        row(b) == LET of_b == SelectSeq(entries, LAMBDA e : bucket(e) = b)
                  IN  [date |-> b, additions |-> Sum(Additions(of_b)),
                       deletions |-> Sum(Deletions(of_b))]
    IN  [b \in buckets |-> row(b)]

RECURSIVE sort_by_total(_)
\* sort_values('total_changes', ascending=False), ties in insertion order
sort_by_total(rows) ==
    IF rows = <<>> THEN <<>>
    ELSE LET total(r) == r.additions + r.deletions
             top == CHOOSE k \in 1..Len(rows) :
                      /\ \A j \in 1..Len(rows) : total(rows[j]) <= total(rows[k])
                      /\ \A j \in 1..(k - 1) : total(rows[j]) < total(rows[k])
         IN  <<rows[top]>> \o
             sort_by_total(SubSeq(rows, 1, top - 1) \o SubSeq(rows, top + 1, Len(rows)))

\* user_data when the entry of a known author replaces the author's totals
add_to_user_data_overwriting(data, entry) ==
    LET known == \E k \in 1..Len(data) : data[k].name = entry.author
        base == IF known THEN data
                ELSE Append(data, [name |-> entry.author, email |-> entry.email,
                                   commits |-> 0, additions |-> 0, deletions |-> 0])
        at == CHOOSE k \in 1..Len(base) : base[k].name = entry.author
    IN  [base EXCEPT ![at].commits = @ + 1,
                     ![at].additions = entry.additions,
                     ![at].deletions = entry.deletions]

\* lines 1375-1389: user_data after one more entry
add_to_user_data(data, entry) ==
    LET known == \E k \in 1..Len(data) : data[k].name = entry.author
        base == IF known THEN data
                ELSE Append(data, [name |-> entry.author, email |-> entry.email,
                                   commits |-> 0, additions |-> 0, deletions |-> 0])
        at == CHOOSE k \in 1..Len(base) : base[k].name = entry.author
    IN  [base EXCEPT ![at].commits = @ + 1,
                     ![at].additions = @ + entry.additions,
                     ![at].deletions = @ + entry.deletions]

Configured ==
    /\ is_stash \in BOOLEAN
    /\ focus_user \in FocusUsers
    /\ ignore_merges \in BOOLEAN
    /\ include_merges \in BOOLEAN
    /\ by_user \in BOOLEAN
    /\ file_extensions \in {<<>>, <<ExtPy>>}

Fresh ==
    /\ pc = "start"
    /\ commits = <<>>
    /\ futures = <<>>
    /\ completed = <<>>
    /\ results = <<>>
    /\ user_data = <<>>
    /\ filtered_commit_count = 0
    /\ requests = {}
    /\ output = NoOutput
    /\ listing = "pending"

RunInit ==
    /\ Configured
    /\ \/ host = "scenario" /\ reliable \in BOOLEAN
       \/ host = "timestamps" /\ reliable = FALSE
       \/ /\ host = "big" /\ reliable = TRUE
          /\ ~ignore_merges /\ ~include_merges /\ file_extensions = <<>>
    /\ Fresh

\* analyze_repository up to the submission of the commits to the pool
GetCommits ==
    /\ pc = "start"
    /\ \E listed \in (IF reliable THEN {TRUE} ELSE BOOLEAN) :
          /\ listing' = IF listed THEN "ok" ELSE "failed"
          /\ commits' = IF listed THEN get_commits(Served(host)) ELSE <<>>
          /\ requests' = requests \cup {<<0, "commits">>}
    /\ IF commits' = <<>>
       THEN pc' = "done" /\ output' = ReturnedNone /\ futures' = futures
       ELSE /\ pc' = "processing"
            /\ output' = output
            /\ futures' = [i \in 1..Len(commits') |-> [st |-> "queued", result |-> Filtered]]
    /\ UNCHANGED <<webVars, matchVars, callVars, configVars, completed, results, user_data,
                   filtered_commit_count>>

\* the i-th commit of the batch
commit_at(i) == Served(host)[commits[i]]

\* a thread of the pool is free for future i: the pool starts the futures in
\* submission order, workers(n) at a time, and a thread blocked in a request
\* stays taken
free_worker(i) ==
    Cardinality({j \in 1..(i - 1) : futures[j].st \in {"queued", "hung"}})
        < workers(Len(commits))

\* a worker thread runs _process_single_commit for commit i to its end, or
\* enters a request that never returns
Complete(i) ==
    /\ pc = "processing"
    /\ futures[i].st = "queued"
    /\ free_worker(i)
    /\ \E r \in _process_single_commit(commit_at(i), file_extensions, focus_user,
                                         ignore_merges, include_merges, by_user,
                                         IF reliable THEN {AllOk} ELSE Outcomes) :
          /\ futures' = [futures EXCEPT ![i] = [st |-> IF r.kind = "hang" THEN "hung"
                                                        ELSE "done",
                                                result |-> r]]
          /\ requests' = requests \cup {<<commit_at(i).id, k>> : k \in r.reqs}
          /\ completed' = IF r.kind = "hang" THEN completed ELSE Append(completed, i)
    /\ UNCHANGED <<webVars, matchVars, callVars, configVars, pc, commits, results, user_data,
                   filtered_commit_count, output, listing>>

\* one iteration of the as_completed loop in the submitting thread
Collect ==
    /\ pc = "processing"
    /\ completed # <<>>
    /\ LET i == Head(completed)
           entry == futures[i].result
       IN  /\ futures' = [futures EXCEPT ![i].st = "collected"]
           /\ results' = IF entry.kind = "entry" THEN Append(results, entry) ELSE results
           /\ user_data' = IF entry.kind = "entry" /\ by_user
                           THEN add_to_user_data(user_data, entry) ELSE user_data
           /\ filtered_commit_count' =
                  IF entry.kind = "filtered" THEN filtered_commit_count + 1
                  ELSE filtered_commit_count
    /\ completed' = Tail(completed)
    /\ UNCHANGED <<webVars, matchVars, callVars, configVars, pc, commits, requests, output,
                   listing>>

\* analyze_repository after the pool has drained: grouping and user table
Aggregate ==
    /\ pc = "processing"
    /\ \A i \in 1..Len(futures) : futures[i].st = "collected"
    /\ \E group_by \in GroupBys :
          output' = [kind |-> IF by_user /\ user_data # <<>> THEN "tables" ELSE "grouped",
                     grouped |-> grouped_by_date(results, group_by),
                     user_df |-> IF by_user /\ user_data # <<>>
                                 THEN sort_by_total(user_data) ELSE <<>>]
    /\ pc' = "done"
    /\ UNCHANGED <<webVars, matchVars, callVars, configVars, commits, futures, completed, results,
                   user_data, filtered_commit_count, requests, listing>>

Analyses == 1..MaxAnalyses

\* an analysis id nobody has submitted
NoProgress == [status |-> "absent", progress |-> 0, completed |-> FALSE]

UiIdle ==
    /\ ui_pc = [a \in Analyses |-> "idle"]
    /\ cache_key = [a \in Analyses |-> "none"]
    /\ _cache_lock = 0
    /\ _user_cache = {}
    /\ _analysis_progress = [a \in Analyses |-> NoProgress]

Workers == 1..MaxWorkers

IoIdle ==
    /\ cache_file = <<>>
    /\ io_pc = [w \in Workers |-> "idle"]
    /\ io_content = [w \in Workers |-> <<>>]
    /\ io_pos = [w \in Workers |-> 0]
    /\ io_given = {}
    /\ io_returned = [w \in Workers |-> None]

Submitted == 1..MaxSubmitted

\* analyze_overall.overall_analysis_id: the id with "_overall" appended
overall_analysis_id(analysis_id) == analysis_id + MaxSubmitted

StatusIds == 1..(2 * MaxSubmitted)

\* a status record without the 'params' key
NoParams == [workspace |-> "absent", focus_user |-> "absent", group_by |-> "absent"]

\* an id that is not in _analysis_status
NoStatus == [status |-> "absent", progress |-> 0, params |-> NoParams]

StatusIdle ==
    /\ _analysis_status = [id \in StatusIds |-> NoStatus]
    /\ run_stage = [id \in StatusIds |-> 0]
    /\ request_params = [a \in Submitted |-> NoParams]

Jobs == 1..MaxJobs

\* a job id that is not in analysis_jobs
NoJob == [status |-> "absent", progress |-> 0, end_time |-> None, results |-> None]

NoResponse == [job_id |-> 0, code |-> 0, results |-> None]

JobsIdle ==
    /\ analysis_jobs = [j \in Jobs |-> NoJob]
    /\ job_pc = [j \in Jobs |-> "none"]
    /\ job_response = NoResponse

WebIdle == UiIdle /\ IoIdle /\ StatusIdle /\ JobsIdle

MatchIdle ==
    /\ username1 = None
    /\ username2 = None
    /\ matchResult = "pending"
    /\ normResult = Pending

RunIdle ==
    /\ is_stash = TRUE
    /\ host = "none"
    /\ reliable = TRUE
    /\ focus_user = None
    /\ ignore_merges = FALSE
    /\ include_merges = FALSE
    /\ by_user = FALSE
    /\ file_extensions = <<>>
    /\ Fresh

\* no resolver method has been called directly
NoCall == [method |-> "none", commit |-> 0, oc |-> AllOk, result |-> Stats(0, 0, {})]

\* _make_request has not been called
NoRequest == [url |-> "none", params |-> None, response |-> "none",
              cached_data |-> None, returned |-> None, network_calls |-> 0]

CallIdle ==
    /\ loc_changes = NoCall
    /\ cache = <<>>
    /\ now = 0
    /\ last_request = NoRequest
    /\ page_limit = 1
    /\ start = 0
    /\ all_commits = <<>>
    /\ page_requests = <<>>

Init == MatchIdle /\ CallIdle /\ WebIdle /\ RunInit

Next ==
    \/ GetCommits
    \/ \E i \in 1..Len(futures) : Complete(i)
    \/ Collect
    \/ Aggregate

Spec == Init /\ [][Next]_vars

(***************************************************************************)
(* The resolver methods as called functions: the contribution scripts call *)
(* get_loc_changes on a commit of their own choice.                        *)
(***************************************************************************)
ResolveInit ==
    /\ MatchIdle
    /\ WebIdle
    /\ CallIdle
    /\ is_stash \in BOOLEAN
    /\ host \in {"scenario", "timestamps"}
    /\ reliable = FALSE
    /\ focus_user = None
    /\ ignore_merges = FALSE
    /\ include_merges = FALSE
    /\ by_user = FALSE
    /\ file_extensions \in {<<>>, <<ExtPy>>}
    /\ Fresh

\* a caller evaluates get_loc_changes for the k-th served commit
GetLocChanges ==
    /\ \E k \in 1..Len(Served(host)), oc \in Outcomes :
          loc_changes' = [method |-> "get_loc_changes", commit |-> k, oc |-> oc,
                          result |-> get_loc_changes(Served(host)[k], file_extensions, oc)]
    /\ UNCHANGED <<webVars, matchVars, runVars, cache, now, last_request, pageVars>>

\* a caller evaluates get_loc_changes_with_cloc for the k-th served commit
GetLocChangesWithCloc ==
    /\ \E k \in 1..Len(Served(host)), oc \in Outcomes :
          loc_changes' = [method |-> "get_loc_changes_with_cloc", commit |-> k,
                          oc |-> oc,
                          result |-> get_loc_changes_with_cloc(Served(host)[k],
                                                               file_extensions, oc)]
    /\ UNCHANGED <<webVars, matchVars, runVars, cache, now, last_request, pageVars>>

ResolveNext == GetLocChanges \/ GetLocChangesWithCloc

SpecResolve == ResolveInit /\ [][ResolveNext]_vars

(***************************************************************************)
(* Commit Source: the pagination loop of get_commits.  The host serves the *)
(* commits of the repository page_limit at a time; a page request ends     *)
(* "ok", "fail" (_make_request returns None or {}) or "malformed" (a JSON  *)
(* object without 'values').                                               *)
(***************************************************************************)
PageOutcomes == {"ok", "fail", "malformed"}

\* the 'values' of the page at an offset
page_values(offset) ==
    [k \in 1..Min(page_limit, Len(Served(host)) - offset) |-> offset + k]

\* isLastPage of the Server dialect, the absence of 'next' in the Cloud dialect
is_last_page(offset) == offset + page_limit >= Len(Served(host))

\* the offset the next request asks for: 'start' in the Server dialect; in the
\* Cloud dialect 'page', which the loop never changes
request_offset == IF is_stash THEN start ELSE 0

\* lines 325-354: the date filter over the accumulated commits
filter_by_date(accumulated) ==
    SelectSeq(accumulated, LAMBDA k :
        /\ start_timestamp_ms <= listing_timestamp(Served(host)[k])
        /\ listing_timestamp(Served(host)[k]) <= end_timestamp_ms)

ListInit ==
    /\ MatchIdle
    /\ WebIdle
    /\ loc_changes = NoCall
    /\ cache = <<>>
    /\ now = 0
    /\ last_request = NoRequest
    /\ is_stash \in BOOLEAN
    /\ host \in {"scenario", "timestamps", "big"}
    /\ reliable \in BOOLEAN
    /\ focus_user = None
    /\ ignore_merges = FALSE
    /\ include_merges = FALSE
    /\ by_user = FALSE
    /\ file_extensions = <<>>
    /\ Fresh
    /\ page_limit \in 1..MaxPageLimit
    /\ start = 0
    /\ all_commits = <<>>
    /\ page_requests = <<>>

\* one iteration of the while loop of get_commits, and the date filter and
\* the return when the iteration leaves the loop.  A page fetched before is
\* answered from the response cache.
FetchPage ==
    /\ pc \in {"start", "paging"}
    /\ Len(page_requests) < MaxPageRequests
    /\ page_requests' = Append(page_requests, request_offset)
    /\ \E outcome \in (IF reliable \/ request_offset \in Range(page_requests)
                        THEN {"ok"} ELSE PageOutcomes) :
          LET values == page_values(request_offset)
          IN  CASE outcome = "fail" ->
                      /\ pc' = "returned" /\ listing' = "failed"
                      /\ commits' = <<>>
                      /\ UNCHANGED <<start, all_commits>>
                [] outcome = "malformed" ->
                      /\ pc' = "returned" /\ listing' = "malformed"
                      /\ commits' = filter_by_date(all_commits)
                      /\ UNCHANGED <<start, all_commits>>
                [] outcome = "ok" /\ is_last_page(request_offset) ->
                      /\ pc' = "returned" /\ listing' = "ok"
                      /\ all_commits' = all_commits \o values
                      /\ commits' = filter_by_date(all_commits')
                      /\ UNCHANGED start
                [] OTHER ->
                      /\ pc' = "paging" /\ listing' = "pending"
                      /\ all_commits' = all_commits \o values
                      /\ start' = IF is_stash THEN request_offset + page_limit ELSE start
                      /\ UNCHANGED commits
    /\ UNCHANGED <<webVars, matchVars, configVars, futures, completed, results, user_data,
                   filtered_commit_count, requests, output, loc_changes, cache, now,
                   last_request, page_limit>>

ListNext == FetchPage

SpecList == ListInit /\ [][ListNext]_vars

(***************************************************************************)
(* The response cache and _make_request.  A JSON body is the sequence of   *)
(* the keys of the object; <<>> is the body {}.  params is None, <<>> for  *)
(* {} or a sequence of parameter names.                                    *)
(***************************************************************************)
expiry_seconds == 3600

\* the seconds that pass in one step of the clock
TickSeconds == expiry_seconds \div 2

Urls == {"commits"}
Params == {None, <<>>, <<"limit">>}
JsonBodies == {<<>>, <<"values">>, <<"diffs">>}

\* how the host answers one request: "auth" (status 401 or 403), "error"
\* (another HTTP error or a transport error), an empty body, a body that is
\* not JSON, or a JSON body
Responses ==
    {[kind |-> k, data |-> None] : k \in {"auth", "error", "blank", "text"}}
        \cup {[kind |-> "json", data |-> b] : b \in JsonBodies}

\* what a cache file can hold: "entry", an object with 'timestamp' and
\* 'content'; "garbage", bytes json.load rejects; "no_key", an object without
\* one of the two keys; "not_object", another JSON value
CorruptForms == {"garbage", "no_key", "not_object"}

\* the exception a call ends with, in the place of its return value
Raised == <<"raise">>

\* md5 of the url and json.dumps(params or {}): one key per distinct text
_get_cache_key(url, params) == <<url, IF Truthy(params) THEN params ELSE <<>> >>

\* APICache.get: the content of a cache file younger than the expiry;
\* JSONDecodeError and KeyError are caught, the TypeError of subscripting a
\* JSON value that is not an object is not
APICache_get(url, params) ==
    LET key == _get_cache_key(url, params)
        present == \E k \in 1..Len(cache) : cache[k].key = key
        data == cache[CHOOSE k \in 1..Len(cache) : cache[k].key = key]
    IN  IF ~present THEN None
        ELSE IF data.form \in {"garbage", "no_key"} THEN None
        ELSE IF data.form = "not_object" THEN Raised
        ELSE IF now - data.timestamp < expiry_seconds THEN data.content
        ELSE None

\* the cache files after the file of a key has been written with data
write_file(key, data) ==
    IF \E k \in 1..Len(cache) : cache[k].key = key
    THEN [k \in 1..Len(cache) |-> IF cache[k].key = key THEN data ELSE cache[k]]
    ELSE Append(cache, data)

\* APICache.set: the cache files after writing the file of the key
APICache_set(url, params, content) ==
    LET key == _get_cache_key(url, params)
    IN  write_file(key, [key |-> key, form |-> "entry", timestamp |-> now,
                         content |-> content])

\* _make_request when the empty dict returned for a body that is not JSON is
\* written to the cache as well
_make_request_caching_failures(url, params, response) ==
    LET cached_data == APICache_get(url, params)
    IN  IF cached_data = Raised
        THEN [returned |-> Raised, network_calls |-> 0, cache |-> cache]
        ELSE IF Truthy(cached_data)
        THEN [returned |-> cached_data, network_calls |-> 0, cache |-> cache]
        ELSE IF response.kind = "json"
        THEN [returned |-> response.data, network_calls |-> 1,
              cache |-> APICache_set(url, params, response.data)]
        ELSE IF response.kind \in {"blank", "text"}
        THEN [returned |-> <<>>, network_calls |-> 1,
              cache |-> APICache_set(url, params, <<>>)]
        ELSE [returned |-> None, network_calls |-> 1, cache |-> cache]

\* _make_request answered by the host with response: what it returns, the
\* network calls it issues and the cache files it leaves
_make_request(url, params, response) ==
    LET cached_data == APICache_get(url, params)
    IN  IF cached_data = Raised
        THEN [returned |-> Raised, network_calls |-> 0, cache |-> cache]
        ELSE IF Truthy(cached_data)
        THEN [returned |-> cached_data, network_calls |-> 0, cache |-> cache]
        ELSE IF response.kind = "json"
        THEN [returned |-> response.data, network_calls |-> 1,
              cache |-> APICache_set(url, params, response.data)]
        ELSE IF response.kind \in {"blank", "text"}
        THEN [returned |-> <<>>, network_calls |-> 1, cache |-> cache]
        ELSE [returned |-> None, network_calls |-> 1, cache |-> cache]

CacheInit == MatchIdle /\ RunIdle /\ CallIdle /\ WebIdle

\* a caller evaluates _make_request(url, params)
MakeRequest ==
    /\ \E url \in Urls, params \in Params, response \in Responses :
          LET r == _make_request(url, params, response)
          IN  /\ cache' = r.cache
              /\ last_request' = [url |-> url, params |-> params,
                                   response |-> response.kind,
                                   cached_data |-> APICache_get(url, params),
                                   returned |-> r.returned,
                                   network_calls |-> r.network_calls]
    /\ UNCHANGED <<webVars, matchVars, runVars, loc_changes, now, pageVars>>

\* time passes
Tick ==
    /\ now < MaxTicks * TickSeconds
    /\ now' = now + TickSeconds
    /\ UNCHANGED <<webVars, matchVars, runVars, loc_changes, cache, last_request, pageVars>>

\* another writer of the cache directory leaves a file that is no entry
CorruptFile ==
    /\ \E url \in Urls, params \in Params, form \in CorruptForms :
          LET key == _get_cache_key(url, params)
          IN  cache' = write_file(key, [key |-> key, form |-> form, timestamp |-> 0,
                                        content |-> None])
    /\ UNCHANGED <<webVars, matchVars, runVars, loc_changes, now, last_request, pageVars>>

CacheNext == MakeRequest \/ Tick \/ CorruptFile

SpecCache == CacheInit /\ [][CacheNext]_vars

(***************************************************************************)
(* The web application simple_bitbucket_ui.py: every submitted analysis    *)
(* runs run_background_analysis in a thread of its own.  An analysis of    *)
(* one repository is followed; its positions are                           *)
(*   "idle"        not submitted                                           *)
(*   "submitted"   analyze() has stored the first progress record and      *)
(*                 started the thread                                      *)
(*   "started"     the thread is about to call get_cached_user_data        *)
(*   "fetching"    analyzer_func() is running: analyze_repository has its  *)
(*                 network calls in flight                                 *)
(*   "processing"  get_cached_user_data has returned or raised             *)
(*   "complete"    the results are stored                                  *)
(***************************************************************************)
CacheKeys == {"repo_a", "repo_b"}

\* update_progress: the record of the analysis is replaced
update_progress(analysis_id, status, progress) ==
    [_analysis_progress EXCEPT ![analysis_id] =
        [status |-> status, progress |-> progress, completed |-> FALSE]]

\* analyze(): a valid form is submitted for one repository
Analyze(a) ==
    /\ ui_pc[a] = "idle"
    /\ \E k \in CacheKeys : cache_key' = [cache_key EXCEPT ![a] = k]
    /\ _analysis_progress' = update_progress(a, "Initializing analysis...", 0)
    /\ ui_pc' = [ui_pc EXCEPT ![a] = "submitted"]
    /\ UNCHANGED <<coreVars, notUi, _cache_lock, _user_cache>>

\* run_background_analysis up to the call of get_cached_user_data
StartAnalysis(a) ==
    /\ ui_pc[a] = "submitted"
    /\ _analysis_progress' = update_progress(a, "Fetching data...", 20)
    /\ ui_pc' = [ui_pc EXCEPT ![a] = "started"]
    /\ UNCHANGED <<coreVars, notUi, cache_key, _cache_lock, _user_cache>>

\* get_cached_user_data: "with _cache_lock" is entered when the lock is free;
\* on a hit the value is returned and the lock released, on a miss
\* analyzer_func() is called inside the with block
EnterCache(a) ==
    /\ ui_pc[a] = "started"
    /\ _cache_lock = 0
    /\ IF cache_key[a] \in _user_cache
       THEN /\ ui_pc' = [ui_pc EXCEPT ![a] = "processing"]
            /\ UNCHANGED _cache_lock
       ELSE /\ ui_pc' = [ui_pc EXCEPT ![a] = "fetching"]
            /\ _cache_lock' = a
    /\ UNCHANGED <<coreVars, notUi, cache_key, _user_cache,
                   _analysis_progress>>

\* analyzer_func() returns (the result is stored) or raises; the with block
\* is left either way
LeaveCache(a) ==
    /\ ui_pc[a] = "fetching"
    /\ \E raised \in BOOLEAN :
          _user_cache' = IF raised THEN _user_cache ELSE _user_cache \cup {cache_key[a]}
    /\ _cache_lock' = 0
    /\ ui_pc' = [ui_pc EXCEPT ![a] = "processing"]
    /\ UNCHANGED <<coreVars, notUi, cache_key, _analysis_progress>>

\* the rest of run_background_analysis: the results are stored
FinishAnalysis(a) ==
    /\ ui_pc[a] = "processing"
    /\ _analysis_progress' =
          [_analysis_progress EXCEPT ![a] =
              [status |-> "Analysis completed successfully!", progress |-> 100,
               completed |-> TRUE]]
    /\ ui_pc' = [ui_pc EXCEPT ![a] = "complete"]
    /\ UNCHANGED <<coreVars, notUi, cache_key, _cache_lock, _user_cache>>

UiInit == MatchIdle /\ RunIdle /\ CallIdle /\ WebIdle

UiNext ==
    \E a \in Analyses :
        \/ Analyze(a)
        \/ StartAnalysis(a)
        \/ EnterCache(a)
        \/ LeaveCache(a)
        \/ FinishAnalysis(a)

SpecUI == UiInit /\ [][UiNext]_vars

(***************************************************************************)
(* The analyzer UI (src/src/bitbucket_loc_analyzer_ui.py): the status      *)
(* store _analysis_status, the run_analysis thread of each submitted       *)
(* analysis and the analyze_overall request.  A thread is followed from    *)
(* one update_analysis_status call to the next: run_stage is 0 when no     *)
(* thread of the id is running, else the number of its next update.        *)
(***************************************************************************)
ParamSets ==
    { [workspace |-> "ws", focus_user |-> "alice", group_by |-> "day"],
      [workspace |-> "ws", focus_user |-> "", group_by |-> "week"] }

\* the update_analysis_status calls of run_analysis on its way to Complete
RunStages ==
    << [status |-> "Initializing...", progress |-> 10],
       [status |-> "Connecting to Bitbucket...", progress |-> 20],
       [status |-> "Analyzing...", progress |-> 40],
       [status |-> "Saving data files...", progress |-> 60],
       [status |-> "Generating time series chart...", progress |-> 75],
       [status |-> "Generating contributor chart...", progress |-> 85],
       [status |-> "Finalizing results...", progress |-> 95],
       [status |-> "Complete", progress |-> 100] >>

\* the update_analysis_status calls of run_overall_analysis before it reads
\* params['base_url'], a key analyze() never stores: the KeyError ends it
OverallStages ==
    << [status |-> "Initializing overall analysis...", progress |-> 10],
       [status |-> "Connecting to Bitbucket...", progress |-> 20] >>

Stages(id) == IF id \in Submitted THEN RunStages ELSE OverallStages

\* update_analysis_status: the entry of the id becomes a new dictionary with
\* the keys status, progress and timestamp
update_analysis_status(analysis_id, status, progress) ==
    [_analysis_status EXCEPT ![analysis_id] =
        [status |-> status, progress |-> progress, params |-> NoParams]]

\* analyze(): the form is valid; the parameters are stored under a new id
\* and the run_analysis thread is started
SubmitAnalysis(a) ==
    /\ _analysis_status[a].status = "absent"
    /\ \E params \in ParamSets :
          /\ _analysis_status' =
                [_analysis_status EXCEPT ![a] =
                    [status |-> "pending", progress |-> 0, params |-> params]]
          /\ request_params' = [request_params EXCEPT ![a] = params]
    /\ run_stage' = [run_stage EXCEPT ![a] = 1]
    /\ UNCHANGED <<coreVars, notStatus>>

\* run_analysis / run_overall_analysis: the next update_analysis_status call
\* on the way to Complete; the thread ends after Complete
UpdateStatus(id) ==
    /\ run_stage[id] \in 1..Len(Stages(id))
    /\ LET stage == Stages(id)[run_stage[id]]
       IN  /\ _analysis_status' = update_analysis_status(id, stage.status, stage.progress)
           /\ run_stage' = [run_stage EXCEPT ![id] =
                               IF stage.status = "Complete" THEN 0 ELSE @ + 1]
    /\ UNCHANGED <<coreVars, notStatus, request_params>>

\* run_analysis / run_overall_analysis: no data was found or an exception was
\* raised once the analyzer is being built; the status becomes an error
\* message and the thread ends
RunError(id) ==
    /\ run_stage[id] >= 3
    /\ _analysis_status' = update_analysis_status(id, "Error", 0)
    /\ run_stage' = [run_stage EXCEPT ![id] = 0]
    /\ UNCHANGED <<coreVars, notStatus, request_params>>

\* the page analyze_overall answers with
analyze_overall_page(analysis_id) ==
    IF _analysis_status[analysis_id].status = "absent" THEN "not_found"
    ELSE IF _analysis_status[analysis_id].params = NoParams THEN "not_available"
    ELSE IF _analysis_status[overall_analysis_id(analysis_id)].status = "Complete"
         THEN "results"
    ELSE "progress"

\* analyze_overall, requested while no overall thread of the id is running:
\* only the answer "progress" stores an entry and starts run_overall_analysis
AnalyzeOverall(a) ==
    /\ run_stage[overall_analysis_id(a)] = 0
    /\ IF analyze_overall_page(a) = "progress"
       THEN /\ _analysis_status' =
                  [_analysis_status EXCEPT ![overall_analysis_id(a)] =
                      [status |-> "pending", progress |-> 0,
                       params |-> _analysis_status[a].params]]
            /\ run_stage' = [run_stage EXCEPT ![overall_analysis_id(a)] = 1]
       ELSE UNCHANGED <<_analysis_status, run_stage>>
    /\ UNCHANGED <<coreVars, notStatus, request_params>>

StatusInit == MatchIdle /\ RunIdle /\ CallIdle /\ WebIdle

StatusNext ==
    \/ \E a \in Submitted : SubmitAnalysis(a) \/ AnalyzeOverall(a)
    \/ \E id \in StatusIds : UpdateStatus(id) \/ RunError(id)

SpecStatus == StatusInit /\ [][StatusNext]_vars

(***************************************************************************)
(* The API backend (src/backend/api/app.py): the jobs of analysis_jobs,    *)
(* the run_analysis_job thread of each job and the results request.  The   *)
(* thread writes the fields of its job without a lock while requests read  *)
(* them, so a call of AnalysisJob.update_status is followed in two steps:  *)
(* the assignment of self.status, then the rest of the method.  job_pc is  *)
(*   "none"      no job of this id                                         *)
(*   "running"   the thread is between two update_status calls             *)
(*   "updating"  the thread is inside update_status, self.status assigned  *)
(*   "ended"     run_analysis_job has returned                             *)
(***************************************************************************)
\* a datetime.now() value
Datetime == <<"datetime">>

\* the job.results dictionary run_analysis_job builds
Results == <<"results">>

\* run_analysis_job with a retry: parsing is entered again from analyzing
NextStatuses_with_retry(job) ==
    CASE job.status = "queued" -> {"initializing"}
      [] job.status = "initializing" -> {"parsing", "failed"}
      [] job.status = "parsing" -> {"analyzing", "failed"}
      [] job.status = "analyzing" -> {"parsing", "finalizing", "failed"}
      [] job.status = "finalizing" /\ job.results = None -> {"failed"}
      [] job.status = "finalizing" /\ job.results # None -> {"completed"}
      [] OTHER -> {}

\* run_analysis_job: the statuses its next update_status call can be given,
\* "failed" where a step of the try block can raise or no repository is left
NextStatuses(job) ==
    CASE job.status = "queued" -> {"initializing"}
      [] job.status = "initializing" -> {"parsing", "failed"}
      [] job.status = "parsing" -> {"analyzing", "failed"}
      [] job.status = "analyzing" -> {"finalizing", "failed"}
      [] job.status = "finalizing" /\ job.results = None -> {"failed"}
      [] job.status = "finalizing" /\ job.results # None -> {"completed"}
      [] OTHER -> {}

\* the progress run_analysis_job hands to update_status with each status
progress_of(status) ==
    CASE status = "initializing" -> 10
      [] status = "parsing" -> 20
      [] status = "analyzing" -> 30
      [] status = "finalizing" -> 90
      [] status = "completed" -> 100
      [] OTHER -> 0

\* start_analysis: the payload is valid; the job is created, stored and its
\* thread started
start_analysis(j) ==
    /\ job_pc[j] = "none"
    /\ analysis_jobs' = [analysis_jobs EXCEPT ![j] = [NoJob EXCEPT !.status = "queued"]]
    /\ job_pc' = [job_pc EXCEPT ![j] = "running"]
    /\ UNCHANGED <<coreVars, notJob, job_response>>

\* AnalysisJob.update_status, first statement: self.status = status
AssignStatus(j) ==
    /\ job_pc[j] = "running"
    /\ \E status \in NextStatuses(analysis_jobs[j]) :
          analysis_jobs' = [analysis_jobs EXCEPT ![j].status = status]
    /\ job_pc' = [job_pc EXCEPT ![j] = "updating"]
    /\ UNCHANGED <<coreVars, notJob, job_response>>

\* AnalysisJob.update_status, the rest: progress, message and, for completed
\* and failed, end_time; run_analysis_job returns after these two statuses
FinishUpdate(j) ==
    /\ job_pc[j] = "updating"
    /\ LET job == analysis_jobs[j]
           final == job.status \in {"completed", "failed"}
       IN  /\ analysis_jobs' =
                 [analysis_jobs EXCEPT
                     ![j].progress = progress_of(job.status),
                     ![j].end_time = IF final THEN Datetime ELSE @]
           /\ job_pc' = [job_pc EXCEPT ![j] = IF final THEN "ended" ELSE "running"]
    /\ UNCHANGED <<coreVars, notJob, job_response>>

\* run_analysis_job after "finalizing": job.generated_files and job.results
\* are assigned
StoreResults(j) ==
    /\ job_pc[j] = "running"
    /\ analysis_jobs[j].status = "finalizing"
    /\ analysis_jobs[j].results = None
    /\ analysis_jobs' = [analysis_jobs EXCEPT ![j].results = Results]
    /\ UNCHANGED <<coreVars, notJob, job_pc, job_response>>

\* get_job_results: 404 for an unknown job, 400 unless the status is
\* completed, else the results of the job
get_job_results(j) ==
    /\ job_response' =
          IF job_pc[j] = "none"
          THEN [job_id |-> j, code |-> 404, results |-> None]
          ELSE IF analysis_jobs[j].status # "completed"
          THEN [job_id |-> j, code |-> 400, results |-> None]
          ELSE [job_id |-> j, code |-> 200, results |-> analysis_jobs[j].results]
    /\ UNCHANGED <<coreVars, notJob, analysis_jobs, job_pc>>

JobsInit == MatchIdle /\ RunIdle /\ CallIdle /\ WebIdle

JobsNext ==
    \E j \in Jobs :
        \/ start_analysis(j)
        \/ AssignStatus(j)
        \/ FinishUpdate(j)
        \/ StoreResults(j)
        \/ get_job_results(j)

\* a step of the run_analysis_job thread of a job
ThreadStep(j) == AssignStatus(j) \/ FinishUpdate(j) \/ StoreResults(j)

\* a started thread is scheduled again and again, and every call it makes
\* returns or raises
SpecJobs == JobsInit /\ [][JobsNext]_vars /\ \A j \in Jobs : WF_vars(ThreadStep(j))

(***************************************************************************)
(* APICache used by several threads on one key.  A cache file reaches the  *)
(* disk in pieces: json.dump writes through a buffered file object, which  *)
(* writes a piece out whenever its buffer is full and the rest when the    *)
(* file is closed.  A document is the sequence of its pieces; a piece is   *)
(* named after the content it belongs to.  Contents "a" and "b" make       *)
(* documents of the same length, content "c" a shorter one.                *)
(***************************************************************************)
Contents == {<<"a", "a">>, <<"b", "b">>, <<"c">>}

\* pieces of documents of two pieces
LongPieces == {"a", "b"}

\* json.load on what the file holds, then APICache.get lines 69-78: a file
\* that is no JSON document is a corrupted cache file (None); a document
\* whose every piece parses in place yields the content its pieces spell
read_cache_file(pieces) ==
    IF pieces = <<"c">> THEN pieces
    ELSE IF Len(pieces) = 2 /\ Range(pieces) \subseteq LongPieces THEN pieces
    ELSE None

\* file.write at a position: the piece replaces what is there or extends the file
write_at(pieces, pos, piece) ==
    [k \in 1..Max(Len(pieces), pos) |->
        IF k = pos THEN piece ELSE IF k <= Len(pieces) THEN pieces[k] ELSE "nul"]

\* APICache.set line 91: open(cache_file, 'w') truncates the file
OpenCacheFile(w) ==
    /\ io_pc[w] = "idle"
    /\ \E content \in Contents :
          /\ io_content' = [io_content EXCEPT ![w] = content]
          /\ io_given' = io_given \cup {content}
    /\ cache_file' = <<>>
    /\ io_pos' = [io_pos EXCEPT ![w] = 0]
    /\ io_pc' = [io_pc EXCEPT ![w] = "writing"]
    /\ UNCHANGED <<coreVars, notIo, io_returned>>

\* APICache.set lines 92-95: the next piece of the document is written out at
\* the position of this thread's file object; after the last one the file
\* is closed and set returns
WritePiece(w) ==
    /\ io_pc[w] = "writing"
    /\ cache_file' = write_at(cache_file, io_pos[w] + 1, io_content[w][io_pos[w] + 1])
    /\ io_pos' = [io_pos EXCEPT ![w] = @ + 1]
    /\ io_pc' = [io_pc EXCEPT ![w] = IF io_pos[w] + 1 = Len(io_content[w])
                                      THEN "idle" ELSE "writing"]
    /\ UNCHANGED <<coreVars, notIo, io_content, io_given, io_returned>>

\* APICache.get by a thread that is not inside set
CacheGet(w) ==
    /\ io_pc[w] = "idle"
    /\ io_returned' = [io_returned EXCEPT ![w] = read_cache_file(cache_file)]
    /\ UNCHANGED <<coreVars, notIo, cache_file, io_pc, io_content, io_pos, io_given>>

IoInit == MatchIdle /\ RunIdle /\ CallIdle /\ WebIdle

IoNext == \E w \in Workers : OpenCacheFile(w) \/ WritePiece(w) \/ CacheGet(w)

SpecIO == IoInit /\ [][IoNext]_vars

(***************************************************************************)
(* The matcher and the normalizer as called functions.                     *)
(***************************************************************************)
Alphabet == {"a", "B", " ", "@"}

Strings(n) == UNION {[1..k -> Alphabet] : k \in 0..n}

Inputs == Samples \cup Strings(MaxLen) \cup {None}

IsEmail(s) == Truthy(s) /\ HasChar(s, "@")

MatchInit ==
    /\ RunIdle
    /\ WebIdle
    /\ CallIdle
    /\ username1 \in Inputs
    /\ username2 \in Inputs
    /\ matchResult = "pending"
    /\ normResult = Pending

\* a caller evaluates is_user_match(username1, username2)
Match ==
    /\ matchResult = "pending"
    /\ matchResult' = IF is_user_match(username1, username2) THEN "match" ELSE "nomatch"
    /\ UNCHANGED <<webVars, username1, username2, normResult, runVars, callVars>>

\* a caller evaluates normalize_username(username1)
Normalize ==
    /\ normResult = Pending
    /\ normResult' = normalize_username(username1)
    /\ UNCHANGED <<webVars, username1, username2, matchResult, runVars, callVars>>

MatchNext == Match \/ Normalize

SpecMatch == MatchInit /\ [][MatchNext]_vars

Matched == matchResult # "pending"
Returned == matchResult = "match"

(***************************************************************************)
(* Properties of the Identity Matcher (checked under SpecMatch).           *)
(***************************************************************************)
NonEmailName(s) == Truthy(s) /\ ~HasChar(s, "@")

\* the characters that separate the words of a name
NameSeparators == Whitespace \cup {",", ".", "_"}

\* the lower-cased words of s: its maximal runs of non-separator characters
NameTokens(s) ==
    {Lower(SubSeq(s, i, j)) : <<i, j>> \in
        {p \in (1..Len(s)) \X (1..Len(s)) :
            /\ p[1] <= p[2]
            /\ \A k \in p[1]..p[2] : s[k] \notin NameSeparators
            /\ p[1] = 1 \/ s[p[1] - 1] \in NameSeparators
            /\ p[2] = Len(s) \/ s[p[2] + 1] \in NameSeparators}}

TokensNested(a, b) ==
    /\ Cardinality(NameTokens(a)) >= 2
    /\ Cardinality(NameTokens(b)) >= 2
    /\ NameTokens(a) \subseteq NameTokens(b) \/ NameTokens(b) \subseteq NameTokens(a)

\* C1: identity matching is symmetric: is_user_match(a, b) returns the same
\* boolean as is_user_match(b, a), for every pair of identity strings.
C1_MatchSymmetric ==
    Matched => (Returned <=> is_user_match(username2, username1))

\* C2: two non-email names that each split (commas, periods and underscores
\* taken as separators, lower-cased) into at least 2 word tokens, one token
\* set being a subset of the other, match whatever the order of the words;
\* "Kallatti, Manjunath" and "Manjunath Kallatti" match in both orders.
C2_ReversedNames ==
    /\ (Matched /\ NonEmailName(username1) /\ NonEmailName(username2)
          /\ TokensNested(username1, username2)) => Returned
    /\ (Matched /\ {username1, username2} = {StrKallattiManjunath, StrManjunathKallatti})
          => Returned

\* C2 witness: the comma form was matched against the natural-order query
C2_Witness ==
    /\ Matched /\ Returned
    /\ username1 = StrKallattiManjunath
    /\ username2 = StrManjunathKallatti
    /\ TokensNested(username1, username2)

\* the words of a string: its maximal runs of non-whitespace characters
WholeWords(s) == Range(SplitWs(s))

\* C3: a non-email query of 1 or 2 characters matches no candidate, unless
\* the two are equal ignoring case or normalize to the same token; a query
\* that is a whole word of length >= 4 of the candidate matches.
C3_ShortQueryNoMatch ==
    /\ (Matched /\ Truthy(username1) /\ NonEmailName(username2)
          /\ Len(username2) \in {1, 2}
          /\ Lower(username1) # Lower(username2)
          /\ normalize_username(username1) # normalize_username(username2))
        => ~Returned
    /\ (Matched /\ Truthy(username1) /\ NonEmailName(username2)
          /\ Len(username2) >= 4
          /\ username2 \in WholeWords(username1))
        => Returned

\* the local part of an email, lower-cased
LocalPart(email) == SplitOn(Strip(Lower(email)), "@")[1]

\* the words of a name: lower-cased, split on comma, parentheses, whitespace
ClaimNameWords(name) ==
    LET seps == Whitespace \cup {",", "(", ")"}
        t == Strip(Lower(name))
    IN  {SubSeq(t, i, j) : <<i, j>> \in
            {p \in (1..Len(t)) \X (1..Len(t)) :
                /\ p[1] <= p[2]
                /\ \A k \in p[1]..p[2] : t[k] \notin seps
                /\ p[1] = 1 \/ t[p[1] - 1] \in seps
                /\ p[2] = Len(t) \/ t[p[2] + 1] \in seps}}

\* at least 60% of the '.'-separated segments of the local part (one segment
\* when it has no dot) are, of length >= 3, inside or around a name word
SegmentsMatch(email, name) ==
    LET segs == SplitOn(LocalPart(email), ".")
        hit == {i \in 1..Len(segs) :
                  /\ Len(segs[i]) >= 3
                  /\ \E w \in ClaimNameWords(name) :
                        Contains(w, segs[i]) \/ Contains(segs[i], w)}
    IN  5 * Cardinality(hit) >= 3 * Len(segs)

\* the dot-free local part and the punctuation-free name contain one another
MutualContain(email, name) ==
    LET bare == SelectSeq(Strip(Lower(name)),
                          LAMBDA c : c \notin {",", "(", ")", " "})
        loc == SelectSeq(LocalPart(email), LAMBDA c : c # ".")
    IN  Contains(bare, loc) \/ Contains(loc, bare)

EmailNameRule(email, name) == SegmentsMatch(email, name) \/ MutualContain(email, name)

\* C4: when exactly one of the two strings is an email, they match if at
\* least 60% of the local-part segments (a dotless local part being a single
\* segment) fit a name word, or if local part and name contain one another;
\* "manjunath.kallatti@x.com" matches "Manjunath Kallatti" and "jsmith@x.com"
\* does not match "Bob Jones".
C4_EmailToName ==
    /\ (Matched /\ IsEmail(username1) /\ NonEmailName(username2)
          /\ EmailNameRule(username1, username2)) => Returned
    /\ (Matched /\ NonEmailName(username1) /\ IsEmail(username2)
          /\ EmailNameRule(username2, username1)) => Returned
    /\ (Matched /\ {username1, username2} = {StrManjunathEmail, StrManjunathKallatti})
          => Returned
    /\ (Matched /\ {username1, username2} = {StrJsmithX, StrBobJones}) => ~Returned

\* C26: normalize_username returns None for None and for the empty string,
\* and for every other input a non-empty string that it maps to itself and
\* that holds no '@', '.', '_', upper-case letter, leading or trailing space
\* or doubled space
C26_NormalizerCanonical ==
    normResult # Pending =>
        IF ~Truthy(username1) THEN normResult = None
        ELSE /\ normResult # None
             /\ normResult # <<>>
             /\ normalize_username(normResult) = normResult
             /\ \A k \in 1..Len(normResult) :
                    /\ normResult[k] \notin {"@", ".", "_"} \cup Range(UpperAlpha)
                    /\ (k < Len(normResult) /\ normResult[k] = " ")
                           => normResult[k + 1] # " "
             /\ Strip(normResult) = normResult

(***************************************************************************)
(* Properties of the Diff Statistics Resolver (checked under SpecResolve). *)
(***************************************************************************)
\* C5: for a commit with more than one parent, a resolver method that
\* returns statistics returns additions = 0 and deletions = 0, whatever the
\* diff payload, the outcomes of the requests and the dialect
C5_MergeZeroed ==
    (/\ loc_changes # NoCall
     /\ Served(host)[loc_changes.commit].parents > 1
     /\ loc_changes.result.kind = "stats")
        => /\ loc_changes.result.additions = 0
           /\ loc_changes.result.deletions = 0

\* the file is neither on the denylist nor left out by the extension filter
is_counted(file) ==
    /\ ~_should_skip_file(file.path)
    /\ \/ file_extensions = <<>>
       \/ \E k \in 1..Len(file_extensions) : EndsWith(file.path, file_extensions[k])

\* files a diff payload may hold besides those the host serves
ExtraFiles ==
    {DiffFile(PathLogoPng, 3, 1), DiffFile(PathDistJs, 9, 9), DiffFile(PathUtilJs, 5, 2),
     DiffFile(PathAppPy, 1, 1)}

\* the sequence without its k-th element
Without(seq, k) == SubSeq(seq, 1, k - 1) \o SubSeq(seq, k + 1, Len(seq))

\* C24: for a commit with at most one parent whose requests succeed,
\* get_loc_changes returns the added and the removed lines of the files that
\* are not on the denylist and pass the extension filter, and the result
\* stays the same when a file that is denylisted or filtered out is taken
\* out of the diff payload or put into it
C24_FileFiltering ==
    (/\ loc_changes.method = "get_loc_changes"
     /\ loc_changes.oc = AllOk
     /\ Served(host)[loc_changes.commit].parents <= 1)
        => LET commit == Served(host)[loc_changes.commit]
               diffs == commit.diffs
               result == loc_changes.result
           IN  /\ result.kind = "stats"
               /\ result.additions =
                      Sum([k \in 1..Len(diffs) |->
                              IF is_counted(diffs[k]) THEN diffs[k].lines_added ELSE 0])
               /\ result.deletions =
                      Sum([k \in 1..Len(diffs) |->
                              IF is_counted(diffs[k]) THEN diffs[k].lines_removed ELSE 0])
               /\ \A k \in 1..Len(diffs) :
                      ~is_counted(diffs[k]) =>
                          get_loc_changes([commit EXCEPT !.diffs = Without(diffs, k)],
                                          file_extensions, AllOk) = result
               /\ \A file \in ExtraFiles :
                      ~is_counted(file) =>
                          get_loc_changes([commit EXCEPT !.diffs = Append(diffs, file)],
                                          file_extensions, AllOk) = result

\* get_loc_changes has counted the lines of app.py and left out those of the
\* denylisted logo.png of the same commit
C24_Witness ==
    /\ loc_changes.method = "get_loc_changes"
    /\ loc_changes.oc = AllOk
    /\ host = "scenario"
    /\ loc_changes.commit = 1
    /\ loc_changes.result.additions = 10
    /\ loc_changes.result.deletions = 2

(***************************************************************************)
(* Properties of the Attribution Engine (checked under Spec).              *)
(***************************************************************************)
InWindow(ms) == start_timestamp_ms <= ms /\ ms <= end_timestamp_ms

\* the positions in the batch of the k-th served commit
BatchPositions(k) == {i \in 1..Len(commits) : commits[i] = k}

\* C6: once the commit list has been fetched, every served commit whose
\* author timestamp is outside the window and whose committer timestamp is
\* inside it is in the batch, and an entry made for it carries the date of
\* its committer timestamp
C6_TimestampPrecedence ==
    listing = "ok" =>
        \A k \in 1..Len(Served(host)) :
            LET commit == Served(host)[k]
            IN  (~InWindow(commit.authorTimestamp) /\ InWindow(commit.committerTimestamp))
                    => /\ BatchPositions(k) # {}
                       /\ \A i \in BatchPositions(k) :
                             (futures[i].st # "queued" /\ futures[i].result.kind = "entry")
                                 => futures[i].result.date = DateOf(commit.committerTimestamp)

\* the entries of the commits that were included, in submission order
IncludedEntries ==
    LET included == SelectSeq([i \in 1..Len(futures) |-> i], LAMBDA i :
                        futures[i].st = "collected" /\ futures[i].result.kind = "entry")
    IN  [k \in 1..Len(included) |-> futures[included[k]].result]

RECURSIVE RowsOf(_)
\* the rows of a table indexed by date bucket, as a sequence
RowsOf(table) ==
    IF DOMAIN table = {} THEN <<>>
    ELSE LET b == CHOOSE x \in DOMAIN table : TRUE
         IN  <<table[b]>> \o RowsOf([x \in DOMAIN table \ {b} |-> table[x]])

\* C7: in a run with per-user statistics, at every moment the additions and
\* the deletions of the per-user records sum to those of the entries of the
\* commits collected so far, and in the returned tables the per-user rows
\* and the per-date rows both sum to those of the included commits
C7_Additivity ==
    by_user =>
        LET additions == Sum(Additions(IncludedEntries))
            deletions == Sum(Deletions(IncludedEntries))
        IN  /\ Sum(Additions(user_data)) = additions
            /\ Sum(Deletions(user_data)) = deletions
            /\ output.kind = "tables" =>
                  /\ Sum(Additions(output.user_df)) = additions
                  /\ Sum(Deletions(output.user_df)) = deletions
                  /\ Sum(Additions(RowsOf(output.grouped))) = additions
                  /\ Sum(Deletions(RowsOf(output.grouped))) = deletions

\* a run with per-user statistics returned its tables after two workers
\* completed commits out of submission order
C7_Witness ==
    /\ host = "big"
    /\ by_user
    /\ output.kind = "tables"
    /\ Len(output.user_df) > 1
    /\ Sum(Additions(output.user_df)) > 0
    /\ \E a, b \in 1..Len(results) : a < b /\ results[a].additions > results[b].additions

ResolutionKinds == {"detail", "archive", "diff"}

\* the served commits for which a resolution request has been issued
Resolved == {k \in 1..Len(Served(host)) :
                \E kind \in ResolutionKinds : <<Served(host)[k].id, kind>> \in requests}

\* C8: with a focus user set, commit-detail, archive and diff requests are
\* only ever issued for commits whose author display name matches the focus
\* user; when the focus user matches no author, none is issued
C8_FocusFilterFirst ==
    Truthy(focus_user) =>
        /\ \A name \in {Served(host)[k].displayName : k \in Resolved} :
              is_user_match(name, focus_user)
        /\ \/ Resolved = {}
           \/ \E name \in {Served(host)[k].displayName : k \in 1..Len(Served(host))} :
                 is_user_match(name, focus_user)

\* a run with a focus user has ended: it resolved a matching commit and
\* filtered another one without any request
C8_Witness ==
    /\ Truthy(focus_user)
    /\ pc = "done"
    /\ filtered_commit_count > 0
    /\ Resolved # {}
    /\ \E i \in 1..Len(commits) : commits[i] \notin Resolved

\* C10: the scenario run with focus user "John Smith", every request
\* succeeding, returns one per-user row with additions 15 and deletions 2
C10_Scenario ==
    (/\ host = "scenario"
     /\ reliable
     /\ is_stash
     /\ by_user
     /\ focus_user = StrJohnSmith
     /\ file_extensions = <<>>
     /\ pc = "done")
        => /\ output.kind = "tables"
           /\ Len(output.user_df) = 1
           /\ output.user_df[1].additions = 15
           /\ output.user_df[1].deletions = 2
           /\ filtered_commit_count = 1

(***************************************************************************)
(* Properties of the response cache (checked under SpecCache).             *)
(***************************************************************************)
\* C9: a request whose cache entry exists and has not expired returns the
\* cached content and issues no network call
C9_CacheIdempotent ==
    (last_request # NoRequest /\ last_request.cached_data \notin {None, Raised})
        => /\ last_request.returned = last_request.cached_data
           /\ last_request.network_calls = 0

\* a step of MakeRequest: the clock stands still and no file that is not an
\* entry has been written
RequestStep ==
    /\ now' = now
    /\ \A k \in 1..Len(cache') :
          cache'[k].form # "entry" => (k <= Len(cache) /\ cache[k] = cache'[k])

C18_MatchTotal ==
    Matched =>
        /\ matchResult \in {"match", "nomatch"}
        /\ (~Truthy(username1) \/ ~Truthy(username2)) => matchResult = "nomatch"
        /\ match_calls(username1, username2) <= 2

\* a call whose candidate is an email and whose query is not has returned
\* through the recursive call
C18_Witness ==
    /\ Matched
    /\ IsEmail(username1)
    /\ ~IsEmail(username2)
    /\ match_calls(username1, username2) = 2

\* C15: a request the host answers with 401 or 403 does not return what a
\* request returns that failed otherwise (None) or had no JSON body ({})
C15_AuthSurfaced ==
    (last_request.response = "auth" /\ last_request.network_calls = 1)
        => last_request.returned \notin {None, <<>>}

\* the cache file of a key, if it is a well-formed entry younger than the TTL
FreshEntries(key) ==
    {cache[k] : k \in {j \in 1..Len(cache) :
        /\ cache[j].key = key
        /\ cache[j].form = "entry"
        /\ now - cache[j].timestamp < expiry_seconds}}

\* C17: APICache.get returns the content of the entry of the key if that
\* entry exists, is well-formed and is younger than the TTL, and returns
\* None without raising in every other case
C17_LookupContract ==
    \A url \in Urls, params \in Params :
        LET fresh == FreshEntries(_get_cache_key(url, params))
        IN  /\ APICache_get(url, params) # Raised
            /\ \A e \in fresh : APICache_get(url, params) = e.content
            /\ fresh = {} => APICache_get(url, params) = None

(***************************************************************************)
(* Properties of the Commit Source (checked under SpecList).               *)
(***************************************************************************)
\* C11: when a page request failed or was answered with a malformed
\* payload, get_commits returns the empty list
C11_FailClosed ==
    (pc = "returned" /\ listing \in {"failed", "malformed"}) => commits = <<>>

\* the offsets of the pages of the host, in sequence
PageChain ==
    LET pages == (Len(Served(host)) + page_limit - 1) \div page_limit
    IN  [k \in 1..pages |-> (k - 1) * page_limit]

\* C12: get_commits never requests a page twice, and when it has returned
\* after a listing without failure it has requested the pages of the chain
\* once each, in sequence
C12_EachPageOnce ==
    /\ \A a, b \in 1..Len(page_requests) :
          a # b => page_requests[a] # page_requests[b]
    /\ (pc = "returned" /\ listing = "ok") => page_requests = PageChain

\* the effective timestamp of a served commit
effective_timestamp(commit) == Max(commit.authorTimestamp, commit.committerTimestamp)

\* C13: when every page request succeeded, get_commits returns the served
\* commits whose effective timestamp is in the window, once each and in the
\* order served
C13_ListingResult ==
    (pc = "returned" /\ listing = "ok") =>
        commits = SelectSeq([k \in 1..Len(Served(host)) |-> k], LAMBDA k :
                      /\ start_timestamp_ms <= effective_timestamp(Served(host)[k])
                      /\ effective_timestamp(Served(host)[k]) <= end_timestamp_ms)

(***************************************************************************)
(* Failure properties of the Attribution Engine (checked under Spec).      *)
(***************************************************************************)
\* C14: no commit is dropped by a failure: a worker never ends with an
\* exception, and when the run is done every commit of the batch has either
\* been filtered or has its entry in the results
C14_FailureIsolation ==
    /\ \A i \in 1..Len(futures) :
          futures[i].st # "queued" => futures[i].result.kind # "raise"
    /\ (pc = "done" /\ commits # <<>>)
          => Len(results) + filtered_commit_count = Len(commits)

\* C16: a run whose commit listing failed does not return what a run
\* returns whose listing succeeded with no commit in the window
C16_FailureSignalled ==
    listing = "failed" => output # ReturnedNone

\* C19: every network call of a batch carries a timeout, so a request the
\* host never answers fails its single commit and the batch completes: while
\* the batch is being processed some future can still run to its end, or a
\* finished future waits to be collected, or all are collected and the
\* tables can be built (every step uses up a future, so a batch that can
\* always step completes)
C19_NoHang ==
    pc = "processing" =>
        \/ \E i \in 1..Len(futures) : futures[i].st = "queued" /\ free_worker(i)
        \/ completed # <<>>
        \/ \A i \in 1..Len(futures) : futures[i].st = "collected"

RECURSIVE user_rows(_)
\* user_data when the entries are collected in the order given
user_rows(entries) ==
    IF entries = <<>> THEN <<>>
    ELSE add_to_user_data(user_rows(SubSeq(entries, 1, Len(entries) - 1)),
                          entries[Len(entries)])

\* C20: the returned tables do not depend on the order in which the workers
\* completed: the per-user rows (name, email, commits, additions,
\* deletions) are those of a run that collects the same entries in
\* submission order, the per-date rows are those of the included entries,
\* and every collected entry carries the author of its own commit
C20_OrderIndependent ==
    output.kind = "tables" =>
        /\ Range(output.user_df) = Range(user_rows(IncludedEntries))
        /\ \E group_by \in GroupBys :
              output.grouped = grouped_by_date(IncludedEntries, group_by)
        /\ \A i \in 1..Len(futures) :
              (futures[i].st = "collected" /\ futures[i].result.kind = "entry")
                  => /\ futures[i].result.author = commit_at(i).displayName
                     /\ futures[i].result.email = commit_at(i).emailAddress

\* C25: for every commit of the batch with at most one parent that was
\* processed with all its requests succeeding, the entry recorded carries
\* the added and the removed lines of the counted files of its diff
C25_DirectCommitsCounted ==
    \A i \in 1..Len(futures) :
        (/\ futures[i].st # "queued"
         /\ commit_at(i).parents <= 1
         /\ futures[i].result = commit_entry(commit_at(i), file_extensions, by_user, AllOk))
            => LET diffs == commit_at(i).diffs
               IN  /\ futures[i].result.kind = "entry"
                   /\ futures[i].result.additions =
                          Sum([k \in 1..Len(diffs) |->
                                  IF is_counted(diffs[k]) THEN diffs[k].lines_added ELSE 0])
                   /\ futures[i].result.deletions =
                          Sum([k \in 1..Len(diffs) |->
                                  IF is_counted(diffs[k]) THEN diffs[k].lines_removed ELSE 0])

\* C23: with ignore_merges set and include_merges not set, no commit with
\* more than one parent yields an entry and, with no focus user, no commit
\* with at most one parent is filtered out; with include_merges set and no
\* focus user, no commit is filtered out
C23_MergeFlags ==
    \A i \in 1..Len(futures) :
        futures[i].st # "queued" =>
            LET kind == futures[i].result.kind
                parents == commit_at(i).parents
            IN  /\ (ignore_merges /\ ~include_merges) =>
                      /\ parents > 1 => kind # "entry"
                      /\ (parents <= 1 /\ ~Truthy(focus_user)) => kind # "filtered"
                /\ (include_merges /\ ~Truthy(focus_user)) => kind # "filtered"

\* C28: once the commit list has been fetched (Server dialect), a served
\* commit is in the batch exactly when the day its effective timestamp is
\* bucketed under lies between start_date and end_date, both included
C28_InclusionMatchesDay ==
    (listing = "ok" /\ is_stash) =>
        \A k \in 1..Len(Served(host)) :
            BatchPositions(k) # {}
                <=> LET day == DateOf(effective_timestamp(Served(host)[k]))
                    IN  StartDay <= day /\ day <= EndDay

(***************************************************************************)
(* Properties of the web application (checked under SpecUI).               *)
(***************************************************************************)
\* C21: no thread holds the cache lock while the network calls of its
\* analysis are in flight, and no analysis waits for the lock behind the
\* network calls of another one
C21_NoLockAcrossIO ==
    \A a \in Analyses :
        ui_pc[a] = "fetching" =>
            /\ _cache_lock # a
            /\ \A b \in Analyses \ {a} : ui_pc[b] = "started" => _cache_lock = 0

(***************************************************************************)
(* Properties of the shared cache file (checked under SpecIO).             *)
(***************************************************************************)
\* C22: with several threads in APICache.get and APICache.set on one key, no
\* get raises and every get returns None or, whole, a content that some set
\* call was given
C22_ConcurrentCacheSafe ==
    \A w \in Workers :
        /\ io_returned[w] # Raised
        /\ io_returned[w] \in {None} \cup io_given

(***************************************************************************)
(* Properties of the analyzer UI (checked under SpecStatus).               *)
(***************************************************************************)
\* C29: the parameters stored for an analysis id when it is submitted remain
\* stored under that id after every later update_analysis_status call, so
\* that once the analysis is Complete, analyze_overall for that id finds
\* them and starts (or shows) the overall analysis.
C29_ParamsSurvive ==
    \A a \in Submitted :
        _analysis_status[a].status # "absent" =>
            /\ _analysis_status[a].params = request_params[a]
            /\ _analysis_status[a].status = "Complete" =>
                  analyze_overall_page(a) \in {"progress", "results"}

(***************************************************************************)
(* Properties of the API backend (checked under SpecJobs).                 *)
(***************************************************************************)
JobOrder == <<"queued", "initializing", "parsing", "analyzing", "finalizing", "completed">>

\* the position of a status on the way to completed, 0 for any other status
Rank(status) ==
    IF \E k \in 1..Len(JobOrder) : JobOrder[k] = status
    THEN CHOOSE k \in 1..Len(JobOrder) : JobOrder[k] = status
    ELSE 0

\* a step leaves the status of the job alone, moves it forward along
\* JobOrder or makes it failed, and changes nothing once it is final
ForwardStep(j) ==
    LET old == analysis_jobs[j].status
        new == analysis_jobs'[j].status
    IN  /\ old \in {"completed", "failed"} => new = old
        /\ new # old => \/ new = "failed"
                        \/ old = "absent" /\ new = "queued"
                        \/ Rank(old) > 0 /\ Rank(new) > Rank(old)

\* end_time is set by the update_status calls that make the status
\* completed or failed and by nothing else: it is null in every other status
\* and set once such a call has returned
EndTimeExact(j) ==
    LET job == analysis_jobs[j]
    IN  /\ job.end_time # None => job.status \in {"completed", "failed"}
        /\ (job.status \in {"completed", "failed"} /\ job_pc[j] # "updating") =>
              job.end_time # None

\* a results request is answered with results only for a completed job,
\* and these are not null
ResultsWhenCompleted ==
    job_response.code = 200 =>
        /\ analysis_jobs[job_response.job_id].status = "completed"
        /\ job_response.results # None
        /\ job_response.results = analysis_jobs[job_response.job_id].results

\* run_analysis_job has returned with the job completed or failed
Finished(j) ==
    /\ job_pc[j] = "ended"
    /\ analysis_jobs[j].status \in {"completed", "failed"}

====
